---- MODULE Spec2Model ----
(***************************************************************************)
(* A model of the terminal line editor TTYInterface of src/src/readline.ts *)
(* (a port of Node's readline Interface).                                  *)
(*                                                                         *)
(* A string is a sequence of UTF-16 code units (naturals); indices of the  *)
(* source are 0-based, those of the model's sequences 1-based.             *)
(*                                                                         *)
(* The port renamed the members of the upstream class and left their uses  *)
(* under the upstream names.  The model reads each use as the ported       *)
(* member: this._refreshLine is refreshLine, this._line is line(),         *)
(* this._sawReturnAt is sawReturnAt, this._previousKey is previousKey, the *)
(* s of normalTTYWriter is its parameter sequence; the option fields the   *)
(* port never assigns take the constants declared for them                 *)
(* (this.historySize is kHistorySize, this.crlfDelay is kMincrlfDelay),    *)
(* and an option with no declaration at all (removeHistoryDuplicates) is   *)
(* undefined, which is falsy; so are this.terminal and this.columns, which *)
(* the port neither declares nor assigns.  this._prompt is promptText,     *)
(* this._setRawMode(mode) is input.setRawMode(mode), and the call          *)
(* handleGroup(self, ...) is the method handleGroup.  writeToOutput is     *)
(* taken as written: it calls output.write() without its buffer, so that   *)
(* nothing of the buffer reaches the terminal.                             *)
(***************************************************************************)
EXTENDS Integers, Sequences, FiniteSets, TLC

VARIABLES
    line,            \* this.line: the text being edited
    cursor,          \* this.cursor: offset into line, in code units
    history,         \* this.history: committed lines, most recent first
    historyIndex,    \* this.historyIndex: -1 when not browsing the history
    closed,          \* this.closed
    paused,          \* this.paused
    sawReturnAt,     \* this.sawReturnAt: Date.now() of the last \r, or 0
    previousKey,     \* this.previousKey: the key normalTTYWriter saw last
    completion,      \* the completer call in flight, or NoCompletion
    ttyWriter,       \* this.ttyWriter: "normal" or "dumb" (TERM=dumb)
    sigintListeners, \* this.listenerCount('SIGINT')
    now,             \* Date.now(), in milliseconds
    emitted,         \* the events emitted by the handler that ran last
    lineEvents,      \* the payloads of all 'line' events so far, in order
    closeCount,      \* the number of 'close' events so far
    columns,         \* this.output.columns: the width of the terminal
    prevRows,        \* this.prevRows: the cursor's row at the last render
    renders,         \* the calls of refreshLine that await a write
    written,         \* the calls that wrote to the output since the last
                     \* handler that began with no render in flight
    started,         \* the number of renders started since then
    refreshes,       \* the calls of refreshLine by the handler that ran last
    terminal,        \* the terminal's cursor, when the terminal is observed
    rawMode,         \* input.isRaw
    suspended,       \* the process is stopped by SIGTSTP
    sigtstpListeners, \* this.listenerCount('SIGTSTP')
    lastCallback,    \* the arguments of the completer's callback, and the line
                     \* and cursor it found, when the handler that ran last
                     \* was that callback
    keyLog           \* the last key events handled, the latest first,
                     \* each with the value of now when it was handled

vars == <<line, cursor, history, historyIndex, closed, paused, sawReturnAt,
          previousKey, completion, ttyWriter, sigintListeners, now, emitted,
          lineEvents, closeCount, columns, prevRows, renders, written,
          started, refreshes, terminal, rawMode, suspended, sigtstpListeners,
          lastCallback, keyLog>>

(***************************************************************************)
(* Program constants.                                                      *)
(***************************************************************************)
kHistorySize == 30
kMincrlfDelay == 100
kUTF16SurrogateThreshold == 65536

(***************************************************************************)
(* Bounds of the model.                                                    *)
(***************************************************************************)
MaxLen == 3
MaxCommits == 2
MaxExtra == 2
MaxNow == 400
TickStep == 50
MaxCands == 3
MaxRenders == 2
MaxWritten == 8
MaxCols == 6

(***************************************************************************)
(* Code units.                                                             *)
(***************************************************************************)
IsHighSurrogate(c) == c >= 55296 /\ c <= 56319
IsLowSurrogate(c) == c >= 56320 /\ c <= 57343

\* \s of the source's regular expressions and of String.prototype.trim
IsSpace(c) == c \in {9, 10, 11, 12, 13, 32, 160}

\* \w of the source's regular expressions: [A-Za-z0-9_]
IsWord(c) ==
    \/ c >= 48 /\ c <= 57
    \/ c >= 65 /\ c <= 90
    \/ c >= 97 /\ c <= 122
    \/ c = 95

Min(a, b) == IF a <= b THEN a ELSE b
Max(a, b) == IF a >= b THEN a ELSE b

(***************************************************************************)
(* String.prototype methods.  undefined (an index out of range) is -1,     *)
(* which compares below every code point, as undefined >= n is false.      *)
(***************************************************************************)
\* str.slice(b, e): a negative index counts from the end
SliceIndex(s, i) == IF i < 0 THEN Max(Len(s) + i, 0) ELSE Min(i, Len(s))

Slice(s, b, e) == SubSeq(s, SliceIndex(s, b) + 1, SliceIndex(s, e))

SliceFrom(s, b) == Slice(s, b, Len(s))

\* str.substring(b, e): indices clamped to [0, length], swapped when b > e
Substring(s, b, e) ==
    LET cb == Max(0, Min(b, Len(s)))
        ce == Max(0, Min(e, Len(s)))
    IN  SubSeq(s, Min(cb, ce) + 1, Max(cb, ce))

\* str.codePointAt(i)
CodePointAt(s, i) ==
    IF i < 0 \/ i >= Len(s) THEN -1
    ELSE IF /\ IsHighSurrogate(s[i + 1])
            /\ i + 1 < Len(s)
            /\ IsLowSurrogate(s[i + 2])
         THEN 65536 + (s[i + 1] - 55296) * 1024 + (s[i + 2] - 56320)
         ELSE s[i + 1]

\* str.trim().length === 0
TrimIsEmpty(s) == \A i \in 1..Len(s) : IsSpace(s[i])

RECURSIVE Reverse(_)
Reverse(s) == IF s = <<>> THEN <<>> ELSE Append(Reverse(Tail(s)), Head(s))

(***************************************************************************)
(* charLengthLeft, charLengthAt                                            *)
(***************************************************************************)
charLengthLeft(str, i) ==
    IF i <= 0 THEN 0
    ELSE IF \/ i > 1 /\ CodePointAt(str, i - 2) >= kUTF16SurrogateThreshold
            \/ CodePointAt(str, i - 1) >= kUTF16SurrogateThreshold
         THEN 2
         ELSE 1

charLengthAt(str, i) ==
    IF Len(str) <= i THEN 0
    ELSE IF CodePointAt(str, i) >= kUTF16SurrogateThreshold THEN 2 ELSE 1

(***************************************************************************)
(* Display widths (internal/readline/utils) and the positions computed     *)
(* from them.                                                              *)
(***************************************************************************)
\* isFullWidthCodePoint(code), on the blocks the model draws characters from:
\* CJK unified ideographs and the emoji of U+1F300..U+1F64F
isFullWidthCodePoint(code) ==
    \/ code >= 19968 /\ code <= 42182
    \/ code >= 127744 /\ code <= 128591

\* getStringWidth(code) of a code point: 0 for a control or combining
\* character, 2 for a full-width one, 1 otherwise
CodePointWidth(code) ==
    IF code >= 32 /\ code <= 126 THEN 1
    ELSE IF isFullWidthCodePoint(code) THEN 2
    ELSE IF \/ code >= 0 /\ code <= 31
            \/ code >= 127 /\ code <= 159
            \/ code >= 768 /\ code <= 879
         THEN 0
         ELSE 1

\* The index of the code point after the code point code at index i
NextIndex(code, i) == IF code >= kUTF16SurrogateThreshold THEN i + 2 ELSE i + 1

\* getStringWidth(str) of a string: the sum over its code points
RECURSIVE StringWidthFrom(_, _)
StringWidthOver(str, i, code) ==
    CodePointWidth(code) + StringWidthFrom(str, NextIndex(code, i))

StringWidthFrom(str, i) ==
    IF i >= Len(str) THEN 0 ELSE StringWidthOver(str, i, CodePointAt(str, i))

getStringWidth(str) == StringWidthFrom(str, 0)

\* The end of the escape sequence ESC [ parameters final that starts at the
\* 0-based index i of str, or i when none starts there
RECURSIVE SkipParameters(_, _)
SkipParameters(str, i) ==
    IF i < Len(str) /\ str[i + 1] >= 48 /\ str[i + 1] <= 59
    THEN SkipParameters(str, i + 1)
    ELSE i

EscapeSequenceEndAt(str, i, j) ==
    IF j < Len(str) /\ str[j + 1] >= 64 /\ str[j + 1] <= 126 THEN j + 1 ELSE i

EscapeSequenceEnd(str, i) ==
    IF i + 1 < Len(str) /\ str[i + 1] = 27 /\ str[i + 2] = 91
    THEN EscapeSequenceEndAt(str, i, SkipParameters(str, i + 2))
    ELSE i

\* stripVTControlCharacters(str): str without its escape sequences
RECURSIVE StripFrom(_, _)
StripOver(str, i, e) ==
    IF e > i THEN StripFrom(str, e)
    ELSE <<str[i + 1]>> \o StripFrom(str, i + 1)

StripFrom(str, i) ==
    IF i >= Len(str) THEN <<>> ELSE StripOver(str, i, EscapeSequenceEnd(str, i))

\* A string without ESC holds no escape sequence and is returned as it is
stripVTControlCharacters(str) ==
    IF \A i \in DOMAIN str : str[i] # 27 THEN str ELSE StripFrom(str, 0)

\* Math.ceil(a / b) for a >= 0, b > 0
CeilDiv(a, b) == (a + b - 1) \div b

\* The offset of getDisplayPos after a character of the given width that is
\* no newline
DisplayAfterWidth(width, offset, col) ==
    IF width = 0 \/ width = 1 THEN offset + width
    ELSE (IF (offset + 1) % col = 0 THEN offset + 1 ELSE offset) + 2

\* The rows that a newline adds: Math.ceil(offset / col) || 1
DisplayRowsOf(offset, col) ==
    IF CeilDiv(offset, col) = 0 THEN 1 ELSE CeilDiv(offset, col)

\* The loop of getDisplayPos letting a width-2 character straddle two rows
RECURSIVE DisplayLoopStraddling(_, _, _, _, _)
DisplayLoopStraddling(str, i, offset, row, col) ==
    IF i >= Len(str) THEN [offset |-> offset, row |-> row]
    ELSE IF CodePointAt(str, i) = 10
    THEN DisplayLoopStraddling(str, i + 1, 0,
                               row + DisplayRowsOf(offset, col), col)
    ELSE DisplayLoopStraddling(str, NextIndex(CodePointAt(str, i), i),
                               offset + CodePointWidth(CodePointAt(str, i)),
                               row, col)

\* The loop of getDisplayPos from code unit i on, at the given offset and row
RECURSIVE DisplayLoop(_, _, _, _, _)
\* One iteration of the loop, for the code point code at i
DisplayLoopOver(str, i, code, offset, row, col) ==
    IF code = 10
    THEN DisplayLoop(str, NextIndex(code, i), 0,
                     row + DisplayRowsOf(offset, col), col)
    ELSE DisplayLoop(str, NextIndex(code, i),
                     DisplayAfterWidth(CodePointWidth(code), offset, col),
                     row, col)

DisplayLoop(str, i, offset, row, col) ==
    IF i >= Len(str) THEN [offset |-> offset, row |-> row]
    ELSE DisplayLoopOver(str, i, CodePointAt(str, i), offset, row, col)

\* getDisplayPos(s) on a terminal of col columns (this.output.columns)
DisplayPosAt(pos, col) ==
    [cols |-> pos.offset % col,
     rows |-> pos.row + (pos.offset - (pos.offset % col)) \div col]

getDisplayPos(str, col) ==
    DisplayPosAt(DisplayLoop(stripVTControlCharacters(str), 0, 0, 0, col), col)

(***************************************************************************)
(* The fields of a TTYInterface as one record, so that a handler is the    *)
(* composition of the methods it calls.  out collects the events the       *)
(* handler emits.                                                          *)
(***************************************************************************)
Event(name, arg) == [ev |-> name, arg |-> arg]

Emit(s, name, arg) == [s EXCEPT !.out = Append(@, Event(name, arg))]

\* pause()
pause(s) ==
    IF s.paused THEN s
    ELSE Emit([s EXCEPT !.paused = TRUE], "pause", <<>>)

\* resume()
resume(s) ==
    IF ~s.paused THEN s
    ELSE Emit([s EXCEPT !.paused = FALSE], "resume", <<>>)

\* close() without its guard
closeUnguarded(s) == Emit([pause(s) EXCEPT !.closed = TRUE], "close", <<>>)

\* close()
close(s) ==
    IF s.closed THEN s
    ELSE Emit([pause(s) EXCEPT !.closed = TRUE], "close", <<>>)

\* lineHandler (this._onLine): no question callback is ever stored
lineHandler(s, text) == Emit(s, "line", text)

\* addHistory() returning the trimmed line for a whitespace-only line
addHistoryTrimmed(s) ==
    IF TrimIsEmpty(s.line) THEN [st |-> s, ret |-> <<>>]
    ELSE LET h == IF Len(s.history) = 0 \/ s.history[1] # s.line
                  THEN SubSeq(<<s.line>> \o s.history, 1,
                              Min(Len(s.history) + 1, kHistorySize))
                  ELSE s.history
         IN  [st  |-> [s EXCEPT !.history = h, !.historyIndex = -1],
              ret |-> h[1]]

\* addHistory() never evicting the oldest entry
addHistoryNoEvict(s) ==
    IF TrimIsEmpty(s.line) THEN [st |-> s, ret |-> s.line]
    ELSE LET h == IF Len(s.history) = 0 \/ s.history[1] # s.line
                  THEN <<s.line>> \o s.history
                  ELSE s.history
         IN  [st  |-> [s EXCEPT !.history = h, !.historyIndex = -1],
              ret |-> h[1]]

\* addHistory(): the fields after the call, and the value returned
addHistory(s) ==
    IF Len(s.line) = 0 THEN [st |-> s, ret |-> <<>>]
    ELSE IF kHistorySize = 0 THEN [st |-> s, ret |-> s.line]
    ELSE IF TrimIsEmpty(s.line) THEN [st |-> s, ret |-> s.line]
    ELSE LET pushed == <<s.line>> \o s.history
             h == IF Len(s.history) = 0 \/ s.history[1] # s.line
                  THEN IF Len(pushed) > kHistorySize
                       THEN SubSeq(pushed, 1, Len(pushed) - 1)
                       ELSE pushed
                  ELSE s.history
         IN  [st  |-> [s EXCEPT !.history = h, !.historyIndex = -1],
              ret |-> h[1]]

(***************************************************************************)
(* The output.  written logs the calls that write, each with the render   *)
(* that made it (by = 0: no render); terminal is what a terminal of        *)
(* columns columns shows of them: the cursor's row and column on the       *)
(* screen, whether a wrap is pending after a character in the last         *)
(* column, and the row where the prompt was drawn last.                    *)
(***************************************************************************)
\* promptText
promptText == <<62, 32>>

Output(op, x, y, text) == [op |-> op, x |-> x, y |-> y, text |-> text, by |-> 0]

\* cursorTo(stream, x): CSI x+1 G
CursorTo(x) == Output("cursorTo", x, 0, <<>>)

\* cursorTo(stream, 0, 0): CSI 1;1 H
CursorHome == Output("cursorHome", 0, 0, <<>>)

\* moveCursor(stream, dx, dy): CSI D or C, then CSI A or B
MoveCursor(dx, dy) == Output("moveCursor", dx, dy, <<>>)

\* clearScreenDown(stream)
ClearScreenDown == Output("clearScreenDown", 0, 0, <<>>)

\* this.output.write(text)
OutputWrite(text) == Output("write", 0, 0, text)

\* writeToOutput(buffer): this.output.write() is called without the buffer
WriteToOutput(buffer) == Output("writeToOutput", 0, 0, buffer)

\* The terminal once a pending wrap is made, or a wrap that a character of
\* width w needs
TerminalWrapped(t, w) ==
    IF t.pending \/ t.col + w > columns
    THEN [t EXCEPT !.row = t.row + 1, !.col = 0, !.pending = FALSE]
    ELSE t

\* The terminal after a character of width w
TerminalPlaced(t, w) ==
    IF t.col + w >= columns
    THEN [t EXCEPT !.col = columns - 1, !.pending = TRUE]
    ELSE [t EXCEPT !.col = t.col + w]

TerminalPut(t, w) ==
    IF w = 0 THEN t ELSE TerminalPlaced(TerminalWrapped(t, w), w)

\* The terminal after the text from code unit i on
RECURSIVE TerminalText(_, _, _)
\* The terminal after one code point of a text
TerminalCodePoint(t, code) ==
    IF code = 13 THEN [t EXCEPT !.col = 0, !.pending = FALSE]
    ELSE IF code = 10 THEN [t EXCEPT !.row = t.row + 1, !.pending = FALSE]
    ELSE TerminalPut(t, CodePointWidth(code))

TerminalTextOver(t, text, i, code) ==
    TerminalText(TerminalCodePoint(t, code), text, NextIndex(code, i))

TerminalText(t, text, i) ==
    IF i >= Len(text) THEN t
    ELSE TerminalTextOver(t, text, i, CodePointAt(text, i))

\* The terminal after one call; the prompt is what refreshLine writes
TerminalAfter(t, w, isPrompt) ==
    IF ~t.attached THEN t
    ELSE CASE w.op = "cursorTo" ->
                [t EXCEPT !.col = Min(w.x, columns - 1), !.pending = FALSE]
           [] w.op = "cursorHome" ->
                [t EXCEPT !.row = 0, !.col = 0, !.pending = FALSE]
           [] w.op = "moveCursor" ->
                IF w.x = 0 /\ w.y = 0 THEN t
                ELSE [t EXCEPT !.row = Max(0, t.row + w.y),
                               !.col = Max(0, Min(t.col + w.x, columns - 1)),
                               !.pending = FALSE]
           [] w.op = "write" ->
                TerminalText(IF isPrompt THEN [t EXCEPT !.promptRow = t.row]
                             ELSE t, w.text, 0)
           [] OTHER -> t

\* A call that writes, made by render by (0: by no render)
WriteBy(s, w, by, isPrompt) ==
    [s EXCEPT !.written = Append(@, [w EXCEPT !.by = by]),
              !.terminal = TerminalAfter(@, w, isPrompt)]

Write(s, w) == WriteBy(s, w, 0, FALSE)

\* A call that writes, made by render by when cond holds
WriteByIf(cond, s, w, by) == IF cond THEN WriteBy(s, w, by, FALSE) ELSE s

(***************************************************************************)
(* getCursorPos and refreshLine.  refreshLine is async: it runs up to its  *)
(* first await when called and is resumed, once the write it awaits has    *)
(* completed, up to its next await.  renders holds the renders that await, *)
(* in the order of the writes they await.                                  *)
(***************************************************************************)
\* getCursorPos(): this.columns is no member, so that the test for a
\* full-width character at the last column compares cols + 1 with
\* undefined: thisColumns is -1, which no cols + 1 equals
getCursorPosAt(s, dispPos, thisColumns) ==
    IF /\ dispPos.cols + 1 = thisColumns
       /\ s.cursor < Len(s.line)
       /\ isFullWidthCodePoint(CodePointAt(s.line, s.cursor))
    THEN [cols |-> 0, rows |-> dispPos.rows + 1]
    ELSE dispPos

getCursorPos(s) ==
    getCursorPosAt(
        s,
        getDisplayPos(
            stripVTControlCharacters(promptText \o Substring(s.line, 0, s.cursor)),
            columns),
        -1)

\* refreshLine() up to its first await
refreshLineStart(s, text, dispPos, cursorPos) ==
    [WriteBy(s,
             IF s.prevRows > 0 THEN MoveCursor(0, -s.prevRows) ELSE CursorTo(0),
             s.started + 1, FALSE)
        EXCEPT !.renders =
                  Append(@, [id |-> s.started + 1, text |-> text,
                             lineCols |-> dispPos.cols,
                             lineRows |-> dispPos.rows,
                             cursorPos |-> cursorPos,
                             prevRows |-> s.prevRows,
                             pc |-> IF s.prevRows > 0 THEN "cursorTo"
                                    ELSE "clearScreenDown"]),
               !.started = s.started + 1,
               !.refreshes = @ + 1]

refreshLine(s) ==
    refreshLineStart(s, promptText \o s.line,
                     getDisplayPos(promptText \o s.line, columns),
                     getCursorPos(s))

\* refreshLine() when cond holds
refreshLineIf(cond, s) == IF cond THEN refreshLine(s) ELSE s

\* refreshLine() after await clearScreenDown, to its end
refreshLineEnd(s, r) ==
    [WriteByIf(r.lineRows - r.cursorPos.rows > 0,
               WriteBy(WriteByIf(r.lineCols = 0,
                                 WriteBy(s, OutputWrite(r.text), r.id, TRUE),
                                 WriteToOutput(<<32>>), r.id),
                       CursorTo(r.cursorPos.cols), r.id, FALSE),
               MoveCursor(0, -(r.lineRows - r.cursorPos.rows)), r.id)
        EXCEPT !.prevRows = r.cursorPos.rows]

\* The render that awaits the oldest write is resumed
refreshLineResumed(s, r) ==
    CASE r.pc = "cursorTo" ->
            [WriteBy(s, CursorTo(0), r.id, FALSE)
                EXCEPT !.renders = Append(@, [r EXCEPT !.pc = "clearScreenDown"])]
      [] r.pc = "clearScreenDown" ->
            [WriteBy(s, ClearScreenDown, r.id, FALSE)
                EXCEPT !.renders = Append(@, [r EXCEPT !.pc = "write"])]
      [] OTHER -> refreshLineEnd(s, r)

refreshLineResume(s) ==
    refreshLineResumed([s EXCEPT !.renders = Tail(@)], Head(s.renders))

\* Every render runs to its end
RECURSIVE Flush(_)
Flush(s) == IF s.renders = <<>> THEN s ELSE Flush(refreshLineResume(s))

\* The diffWidth of moveCursor: undefined (0 here) when the cursor stays
DiffWidth(str, newcursor, oldcursor) ==
    IF newcursor < oldcursor
    THEN -getStringWidth(Substring(str, newcursor, oldcursor))
    ELSE IF newcursor > oldcursor
    THEN getStringWidth(Substring(str, newcursor, oldcursor))
    ELSE 0

\* moveCursor(dx) once the new cursor is known: s before, moved after

moveCursorFrom(s, moved, oldPos, newPos) ==
    IF oldPos.rows = newPos.rows
    THEN [Write(moved, MoveCursor(DiffWidth(s.line, moved.cursor, s.cursor), 0))
             EXCEPT !.prevRows = newPos.rows]
    ELSE refreshLine(moved)

moveCursorMoved(s, moved) ==
    moveCursorFrom(s, moved, getCursorPos(s), getCursorPos(moved))

\* The bounds check of moveCursor
ClampCursor(target, len) ==
    IF target < 0 THEN 0 ELSE IF target > len THEN len ELSE target

\* moveCursor(dx) when the cursor stays where it is: oldPos and newPos are
\* one value pos, as getCursorPos() reads only line and cursor
moveCursorStay(s, pos) == moveCursorFrom(s, s, pos, pos)

moveCursorTo(s, target) ==
    IF ClampCursor(target, Len(s.line)) = s.cursor
    THEN moveCursorStay(s, getCursorPos(s))
    ELSE moveCursorMoved(
             s, [s EXCEPT !.cursor = ClampCursor(target, Len(s.line))])

\* moveCursor(dx), dx finite: the cursor is clamped into [0, line.length]
moveCursor(s, dx) == moveCursorTo(s, s.cursor + dx)

\* moveCursor(-Infinity), moveCursor(+Infinity)
moveCursorToStart(s) == moveCursorTo(s, -1)

moveCursorToEnd(s) == moveCursorTo(s, Len(s.line) + 1)

\* insertString(shim)
\* insertString(shim) at the end of the line, the line and the cursor being
\* updated: pos is getCursorPos(), which the test of cols and, line and
\* cursor being the same, the final moveCursor(0) all find
insertStringAtPos(t, shim, pos) ==
    moveCursorStay(IF pos.cols = 0 THEN refreshLine(t)
                   ELSE Write(t, WriteToOutput(shim)), pos)

insertStringAtEnd(t, shim) ==
    IF ClampCursor(t.cursor, Len(t.line)) = t.cursor
    THEN insertStringAtPos(t, shim, getCursorPos(t))
    ELSE moveCursor(IF getCursorPos(t).cols = 0 THEN refreshLine(t)
                    ELSE Write(t, WriteToOutput(shim)), 0)

insertString(s, shim) ==
    IF s.cursor < Len(s.line)
    THEN refreshLine([s EXCEPT !.line = Slice(s.line, 0, s.cursor) \o shim
                                       \o Slice(s.line, s.cursor, Len(s.line)),
                               !.cursor = s.cursor + Len(shim)])
    ELSE insertStringAtEnd([s EXCEPT !.line = s.line \o shim,
                                     !.cursor = s.cursor + Len(shim)], shim)

\* The length of the longest prefix of str whose code units satisfy P
RunLength(str, P(_)) ==
    LET stops == {i \in 1..Len(str) : ~P(str[i])}
    IN  IF stops = {} THEN Len(str)
        ELSE (CHOOSE i \in stops : \A j \in stops : i <= j) - 1

IsPunct(c) == ~IsWord(c) /\ ~IsSpace(c)

IsNonWord(c) == ~IsWord(c)

\* The length matched by /^\s*(?:[^\w\s]+|\w+)?/
MatchWordLeft(str) ==
    LET sp == RunLength(str, IsSpace)
        rest == SubSeq(str, sp + 1, Len(str))
    IN  IF rest = <<>> THEN sp
        ELSE IF IsPunct(rest[1]) THEN sp + RunLength(rest, IsPunct)
        ELSE sp + RunLength(rest, IsWord)

\* The length matched by /^(?:\s+|[^\w\s]+|\w+)\s*/ on a non-empty string
MatchWordRight(str) ==
    LET first == IF IsSpace(str[1]) THEN RunLength(str, IsSpace)
                 ELSE IF IsPunct(str[1]) THEN RunLength(str, IsPunct)
                 ELSE RunLength(str, IsWord)
    IN  first + RunLength(SubSeq(str, first + 1, Len(str)), IsSpace)

\* The length matched by /^(?:\s+|\W+|\w+)\s*/ on a non-empty string
MatchDeleteWordRight(str) ==
    LET first == IF IsSpace(str[1]) THEN RunLength(str, IsSpace)
                 ELSE IF IsNonWord(str[1]) THEN RunLength(str, IsNonWord)
                 ELSE RunLength(str, IsWord)
    IN  first + RunLength(SubSeq(str, first + 1, Len(str)), IsSpace)

\* wordLeft()
wordLeft(s) ==
    IF s.cursor > 0
    THEN moveCursor(s, -MatchWordLeft(Reverse(Slice(s.line, 0, s.cursor))))
    ELSE s

\* match[0] of a failed match (match is null): the handler throws
Throw(s) == Emit(s, "TypeError", <<>>)

\* wordRight()
wordRight(s) ==
    IF s.cursor < Len(s.line)
    THEN LET trailing == SliceFrom(s.line, s.cursor)
         IN  IF trailing = <<>> THEN Throw(s)
             ELSE moveCursor(s, MatchWordRight(trailing))
    ELSE s

\* deleteLeft()
deleteLeft(s) ==
    IF s.cursor > 0 /\ Len(s.line) > 0
    THEN LET charSize == charLengthLeft(s.line, s.cursor)
         IN  refreshLine(
                 [s EXCEPT !.line = Slice(s.line, 0, s.cursor - charSize)
                                    \o Slice(s.line, s.cursor, Len(s.line)),
                           !.cursor = s.cursor - charSize])
    ELSE s

\* deleteRight()
deleteRight(s) ==
    IF s.cursor < Len(s.line)
    THEN LET charSize == charLengthAt(s.line, s.cursor)
         IN  refreshLine(
                 [s EXCEPT !.line = Slice(s.line, 0, s.cursor)
                                    \o Slice(s.line, s.cursor + charSize,
                                             Len(s.line))])
    ELSE s

\* deleteWordLeft()
deleteWordLeft(s) ==
    IF s.cursor > 0
    THEN LET leading == Slice(s.line, 0, s.cursor)
             n == MatchWordLeft(Reverse(leading))
             kept == Slice(leading, 0, Len(leading) - n)
         IN  refreshLine(
                 [s EXCEPT !.line = kept \o Slice(s.line, s.cursor, Len(s.line)),
                           !.cursor = Len(kept)])
    ELSE s

\* deleteWordRight()
deleteWordRight(s) ==
    IF s.cursor < Len(s.line)
    THEN LET trailing == SliceFrom(s.line, s.cursor)
         IN  IF trailing = <<>> THEN Throw(s)
             ELSE refreshLine(
                      [s EXCEPT !.line =
                          Slice(s.line, 0, s.cursor)
                          \o SliceFrom(trailing, MatchDeleteWordRight(trailing))])
    ELSE s

\* deleteLineLeft()
deleteLineLeft(s) ==
    refreshLine([s EXCEPT !.line = SliceFrom(s.line, s.cursor), !.cursor = 0])

\* deleteLineRight()
deleteLineRight(s) ==
    refreshLine([s EXCEPT !.line = Slice(s.line, 0, s.cursor)])

\* clearLine()
clearLine(s) ==
    [Write(moveCursorToEnd(s), WriteToOutput(<<13, 10>>)) EXCEPT
        !.line = <<>>, !.cursor = 0, !.prevRows = 0]

\* line() (this._line): commit the line
commitLine(s) ==
    LET r == addHistory(s)
    IN  lineHandler(clearLine(r.st), r.ret)

\* historyNext()
\* historyNext() leaving the line and the cursor when it passes the newest
\* entry
historyNextKeepsLine(s) ==
    IF s.historyIndex > 0
    THEN LET i == s.historyIndex - 1
         IN  refreshLine([s EXCEPT !.historyIndex = i,
                                   !.line = s.history[i + 1],
                                   !.cursor = Len(s.history[i + 1])])
    ELSE IF s.historyIndex = 0
    THEN refreshLine([s EXCEPT !.historyIndex = -1])
    ELSE s

\* historyNext()
historyNext(s) ==
    IF s.historyIndex > 0
    THEN LET i == s.historyIndex - 1
         IN  refreshLine([s EXCEPT !.historyIndex = i,
                                   !.line = s.history[i + 1],
                                   !.cursor = Len(s.history[i + 1])])
    ELSE IF s.historyIndex = 0
    THEN refreshLine([s EXCEPT !.historyIndex = -1, !.cursor = 0,
                               !.line = <<>>])
    ELSE s

\* historyPrev() loading the entry before moving the index
historyPrevStale(s) ==
    IF s.historyIndex + 1 < Len(s.history)
    THEN LET i == s.historyIndex + 1
             text == IF s.historyIndex >= 0 THEN s.history[s.historyIndex + 1]
                     ELSE <<>>
         IN  refreshLine([s EXCEPT !.historyIndex = i, !.line = text,
                                   !.cursor = Len(text)])
    ELSE s

\* historyPrev()
historyPrev(s) ==
    IF s.historyIndex + 1 < Len(s.history)
    THEN LET i == s.historyIndex + 1
         IN  refreshLine([s EXCEPT !.historyIndex = i,
                                   !.line = s.history[i + 1],
                                   !.cursor = Len(s.history[i + 1])])
    ELSE s

(***************************************************************************)
(* Keys, as emitKeypressEvents decodes them: a name, the modifier flags    *)
(* and the raw sequence.                                                   *)
(***************************************************************************)
Key(name, ctrl, meta, shift, sequence) ==
    [name |-> name, ctrl |-> ctrl, meta |-> meta, shift |-> shift,
     sequence |-> sequence]

Plain(name, sequence) == Key(name, FALSE, FALSE, FALSE, sequence)
Ctrl(name, sequence) == Key(name, TRUE, FALSE, FALSE, sequence)
CtrlShift(name, sequence) == Key(name, TRUE, FALSE, TRUE, sequence)
Meta(name, sequence) == Key(name, FALSE, TRUE, FALSE, sequence)

\* previousKey = null
NoKey == Plain("null", <<>>)

\* No completer call is in flight
NoCompletion == [active |-> FALSE, prefix |-> <<>>, lastKeypressWasTab |-> FALSE]

\* s.split(/\r\n|\n|\r/)
RECURSIVE SplitFrom(_, _)
SplitFrom(str, acc) ==
    IF str = <<>> THEN <<acc>>
    ELSE IF Len(str) >= 2 /\ str[1] = 13 /\ str[2] = 10
         THEN <<acc>> \o SplitFrom(SubSeq(str, 3, Len(str)), <<>>)
    ELSE IF str[1] = 10 \/ str[1] = 13
         THEN <<acc>> \o SplitFrom(Tail(str), <<>>)
    ELSE SplitFrom(Tail(str), Append(acc, str[1]))

SplitLines(str) == SplitFrom(str, <<>>)

\* The default case of normalTTYWriter: every line but the last is committed
RECURSIVE InsertLines(_, _, _)
InsertLines(s, lines, i) ==
    IF i > Len(lines) THEN s
    ELSE InsertLines(insertString(IF i > 1 THEN commitLine(s) ELSE s, lines[i]),
                     lines, i + 1)

InsertSequence(s, sequence) ==
    IF sequence # <<>> THEN InsertLines(s, SplitLines(sequence), 1) ELSE s

\* tabComplete(lastKeypressWasTab) without the call of pause
tabCompleteUnpaused(s, lastKeypressWasTab) ==
    [s EXCEPT !.completion =
        [active |-> TRUE,
         prefix |-> Slice(s.line, 0, s.cursor),
         lastKeypressWasTab |-> lastKeypressWasTab]]

\* tabComplete(lastKeypressWasTab), up to the call of the completer
tabComplete(s, lastKeypressWasTab) ==
    [pause(s) EXCEPT !.completion =
        [active |-> TRUE,
         prefix |-> Slice(s.line, 0, s.cursor),
         lastKeypressWasTab |-> lastKeypressWasTab]]

\* Ctrl-C of both writers
interrupt(s) ==
    IF sigintListeners > 0 THEN Emit(s, "SIGINT", <<>>) ELSE close(s)

\* The 'return' case of both writers
returnKey(s) == commitLine([s EXCEPT !.sawReturnAt = now])

\* The 'enter' case with the window test >= for >
enterKeyStrict(s) ==
    LET t == IF s.sawReturnAt = 0 \/ now - s.sawReturnAt >= kMincrlfDelay
             THEN commitLine(s)
             ELSE s
    IN  [t EXCEPT !.sawReturnAt = 0]

\* The 'enter' case with no window: a \n after a \r never commits
enterKeyNoWindow(s) ==
    LET t == IF s.sawReturnAt = 0 THEN commitLine(s) ELSE s
    IN  [t EXCEPT !.sawReturnAt = 0]

\* The 'enter' case of both writers
enterKey(s) ==
    LET t == IF s.sawReturnAt = 0 \/ now - s.sawReturnAt > kMincrlfDelay
             THEN commitLine(s)
             ELSE s
    IN  [t EXCEPT !.sawReturnAt = 0]

\* \r bookkeeping is only relevant if a \n comes right after
forgetReturn(s, key) ==
    IF s.sawReturnAt # 0 /\ key.name # "enter"
    THEN [s EXCEPT !.sawReturnAt = 0]
    ELSE s

\* dumbTTYWriter(s, key)
dumbTTYWriter(s0, sequence, key) ==
    IF key.name = "escape" THEN s0
    ELSE LET s1 == forgetReturn(s0, key)
             s2 == IF key.ctrl /\ key.name = "c" THEN interrupt(s1) ELSE s1
         IN  CASE key.name = "return" -> returnKey(s2)
               [] key.name = "enter" -> enterKey(s2)
               [] OTHER ->
                    IF sequence # <<>>
                    THEN Write([s2 EXCEPT !.line = s2.line \o sequence,
                                          !.cursor = s2.cursor + Len(sequence)],
                               WriteToOutput(sequence))
                    ELSE s2

\* The keys of normalTTYWriter with control and shift pressed
ctrlShiftKeys(s, key) ==
    CASE key.name = "backspace" -> deleteLineLeft(s)
      [] key.name = "delete" -> deleteLineRight(s)
      [] OTHER -> s

\* Ctrl-Z on a platform other than win32: with no 'SIGTSTP' listener raw
\* mode is left, a handler of SIGCONT is registered and the process stops
suspend(s) ==
    IF sigtstpListeners > 0 THEN Emit(s, "SIGTSTP", <<>>)
    ELSE [s EXCEPT !.rawMode = FALSE, !.suspended = TRUE]

\* The handler of SIGCONT that Ctrl-Z registered
sigcontHandler(s) ==
    LET s1 == IF ~s.paused THEN Emit(pause(s), "SIGCONT", <<>>) ELSE s
    IN  refreshLine([s1 EXCEPT !.rawMode = TRUE, !.suspended = FALSE])

\* The keys of normalTTYWriter with control pressed
ctrlKeys(s, key) ==
    CASE key.name = "c" -> interrupt(s)
      [] key.name = "h" -> deleteLeft(s)
      [] key.name = "d" ->
            IF s.cursor = 0 /\ Len(s.line) = 0 THEN close(s)
            ELSE IF s.cursor < Len(s.line) THEN deleteRight(s)
            ELSE s
      [] key.name = "u" -> deleteLineLeft(s)
      [] key.name = "k" -> deleteLineRight(s)
      [] key.name = "a" -> moveCursorToStart(s)
      [] key.name = "e" -> moveCursorToEnd(s)
      [] key.name = "b" -> moveCursor(s, -charLengthLeft(s.line, s.cursor))
      [] key.name = "f" -> moveCursor(s, charLengthAt(s.line, s.cursor))
      [] key.name = "l" ->
            refreshLine(Write(Write(s, CursorHome), ClearScreenDown))
      [] key.name = "z" -> suspend(s)
      [] key.name = "n" -> historyNext(s)
      [] key.name = "p" -> historyPrev(s)
      [] key.name \in {"w", "backspace"} -> deleteWordLeft(s)
      [] key.name = "delete" -> deleteWordRight(s)
      [] key.name = "left" -> wordLeft(s)
      [] key.name = "right" -> wordRight(s)
      [] OTHER -> s

\* The keys of normalTTYWriter with meta pressed
metaKeys(s, key) ==
    CASE key.name = "b" -> wordLeft(s)
      [] key.name = "f" -> wordRight(s)
      [] key.name \in {"d", "delete"} -> deleteWordRight(s)
      [] key.name = "backspace" -> deleteWordLeft(s)
      [] OTHER -> s

\* The keys of normalTTYWriter with no modifier; wasTab is
\* previousKey && previousKey.name === 'tab' on entry
plainKeys(s0, sequence, key, wasTab) ==
    LET s == forgetReturn(s0, key)
    IN  CASE key.name = "return" -> returnKey(s)
          [] key.name = "enter" -> enterKey(s)
          [] key.name = "backspace" -> deleteLeft(s)
          [] key.name = "delete" -> deleteRight(s)
          [] key.name = "left" -> moveCursor(s, -charLengthLeft(s.line, s.cursor))
          [] key.name = "right" -> moveCursor(s, charLengthAt(s.line, s.cursor))
          [] key.name = "home" -> moveCursorToStart(s)
          [] key.name = "end" -> moveCursorToEnd(s)
          [] key.name = "up" -> historyPrev(s)
          [] key.name = "down" -> historyNext(s)
          [] key.name = "tab" -> tabComplete(s, wasTab)
          [] OTHER -> InsertSequence(s, sequence)

\* normalTTYWriter without the test of the escape key and without the
\* switches on the modifiers: every key is handled as a key with no modifier
normalTTYWriterUnmodified(s0, sequence, key) ==
    plainKeys([s0 EXCEPT !.previousKey = key], sequence, key,
              s0.previousKey.name = "tab")

\* normalTTYWriter(sequence, key)
normalTTYWriter(s0, sequence, key) ==
    LET s == [s0 EXCEPT !.previousKey = key]
        wasTab == s0.previousKey.name = "tab"
    IN  IF key.name = "escape" THEN s
        ELSE IF key.ctrl /\ key.shift THEN ctrlShiftKeys(s, key)
        ELSE IF key.ctrl THEN ctrlKeys(s, key)
        ELSE IF key.meta THEN metaKeys(s, key)
        ELSE plainKeys(s, sequence, key, wasTab)

\* inputKeyPressHandler(sequence, key): the line is refreshed after half of
\* a surrogate pair
inputKeyPressHandler(s, sequence, key) ==
    refreshLineIf(/\ key.sequence # <<>>
                  /\ CodePointAt(key.sequence, 0) >= 55296
                  /\ CodePointAt(key.sequence, 0) <= 57343,
                  IF ttyWriter = "dumb" THEN dumbTTYWriter(s, sequence, key)
                  ELSE normalTTYWriter(s, sequence, key))

\* outputResizeHandler()
outputResizeHandler(s) == refreshLine(s)

\* prompt(preserveCursor)
prompt(s0, preserveCursor) ==
    LET s == resume(s0)
    IN  IF ttyWriter # "dumb"
        THEN refreshLine(IF ~preserveCursor THEN [s EXCEPT !.cursor = 0] ELSE s)
        ELSE Write(s, OutputWrite(promptText))

\* inputTermEndHandler()
inputTermEndHandler(s) ==
    close(IF Len(s.line) > 0 THEN Emit(s, "line", s.line) ELSE s)

(***************************************************************************)
(* commonPrefix and the completer's callback                               *)
(***************************************************************************)
\* a < b in the order of Array.prototype.sort: by code units
RECURSIVE LexLess(_, _)
LexLess(a, b) ==
    IF b = <<>> THEN FALSE
    ELSE IF a = <<>> THEN TRUE
    ELSE IF a[1] # b[1] THEN a[1] < b[1]
    ELSE LexLess(Tail(a), Tail(b))

RECURSIVE InsertSorted(_, _)
InsertSorted(sorted, x) ==
    IF sorted = <<>> THEN <<x>>
    ELSE IF LexLess(x, sorted[1]) THEN <<x>> \o sorted
    ELSE <<sorted[1]>> \o InsertSorted(Tail(sorted), x)

\* strings.slice().sort()
RECURSIVE SortStrings(_)
SortStrings(strings) ==
    IF strings = <<>> THEN <<>>
    ELSE InsertSorted(SortStrings(Tail(strings)), Head(strings))

\* The first index (0-based) below min.length where min and max differ,
\* or min.length
FirstDifference(min, max) ==
    LET diff == {i \in 1..Len(min) : i > Len(max) \/ min[i] # max[i]}
    IN  IF diff = {} THEN Len(min)
        ELSE (CHOOSE i \in diff : \A j \in diff : i <= j) - 1

\* commonPrefix comparing the first and last strings as given, unsorted
commonPrefixUnsorted(strings) ==
    IF Len(strings) = 0 THEN <<>>
    ELSE IF Len(strings) = 1 THEN strings[1]
    ELSE Slice(strings[1], 0,
               FirstDifference(strings[1], strings[Len(strings)]))

\* commonPrefix(strings)
commonPrefix(strings) ==
    IF Len(strings) = 0 THEN <<>>
    ELSE IF Len(strings) = 1 THEN strings[1]
    ELSE LET sorted == SortStrings(strings)
             min == sorted[1]
             max == sorted[Len(sorted)]
         IN  Slice(min, 0, FirstDifference(min, max))

\* completions.filter((e) => e)
FilterNonEmpty(strings) == SelectSeq(strings, LAMBDA e : e # <<>>)

\* onComplete(err, rv) of tabComplete, rv = [completions, completeOn]
\* "tab completion error "
CompletionErrorText ==
    <<116, 97, 98, 32, 99, 111, 109, 112, 108, 101, 116, 105, 111, 110, 32,
      101, 114, 114, 111, 114, 32>>

\* handleGroup(group, width, maxColumns) with maxColumns = 1: every item and
\* a line break, then a line break
RECURSIVE handleGroupRows(_, _, _)
handleGroupRows(s, group, i) ==
    IF i > Len(group) THEN s
    ELSE handleGroupRows(
             Write(Write(s, WriteToOutput(group[i])), WriteToOutput(<<13, 10>>)),
             group, i + 1)

handleGroup(s, group) ==
    IF Len(group) = 0 THEN s
    ELSE Write(handleGroupRows(s, group, 1), WriteToOutput(<<13, 10>>))

\* The loop of onComplete over the candidates: '' ends a group.  maxColumns
\* is 1, as self.columns is undefined
RECURSIVE printGroups(_, _, _, _)
printGroups(s, completions, i, group) ==
    IF i > Len(completions) THEN handleGroup(s, group)
    ELSE IF completions[i] = <<>>
    THEN printGroups(handleGroup(s, group), completions, i + 1, <<>>)
    ELSE printGroups(s, completions, i + 1, Append(group, completions[i]))

\* onComplete(err, rv) after its call of resume
insertCommonPrefix(s, prefix, completeOn) ==
    refreshLine(IF Len(prefix) > Len(completeOn)
                THEN insertString(s, SliceFrom(prefix, Len(completeOn)))
                ELSE s)

onCompleteResumed(s, err, completions, completeOn, lastKeypressWasTab) ==
    IF err THEN Write(s, WriteToOutput(CompletionErrorText))
    ELSE IF Len(completions) > 0
    THEN insertCommonPrefix(
             IF lastKeypressWasTab
             THEN printGroups(Write(s, WriteToOutput(<<13, 10>>)),
                              completions, 1, <<>>)
             ELSE s,
             commonPrefix(FilterNonEmpty(completions)), completeOn)
    ELSE s

\* onComplete(err, rv) without its call of resume
onCompleteStillPaused(s0, err, completions, completeOn) ==
    onCompleteResumed([s0 EXCEPT !.completion = NoCompletion],
                      err, completions, completeOn,
                      s0.completion.lastKeypressWasTab)

\* onComplete(err, rv), rv = [completions, completeOn]
onComplete(s0, err, completions, completeOn) ==
    onCompleteResumed([resume(s0) EXCEPT !.completion = NoCompletion],
                      err, completions, completeOn,
                      s0.completion.lastKeypressWasTab)

(***************************************************************************)
(* The session as a state machine.                                         *)
(***************************************************************************)
Fields ==
    [line |-> line, cursor |-> cursor, history |-> history,
     historyIndex |-> historyIndex, closed |-> closed, paused |-> paused,
     sawReturnAt |-> sawReturnAt, previousKey |-> previousKey,
     completion |-> completion, out |-> <<>>,
     prevRows |-> prevRows, renders |-> renders,
     written |-> IF renders = <<>> THEN <<>> ELSE written,
     started |-> IF renders = <<>> THEN 0 ELSE started,
     refreshes |-> 0, terminal |-> terminal, rawMode |-> rawMode,
     suspended |-> suspended]

CountEvents(out, name) == Cardinality({i \in 1..Len(out) : out[i].ev = name})

RECURSIVE LinePayloads(_)
LinePayloads(out) ==
    IF out = <<>> THEN <<>>
    ELSE IF out[1].ev = "line" THEN <<out[1].arg>> \o LinePayloads(Tail(out))
    ELSE LinePayloads(Tail(out))

\* The fields after a handler, and the events it emitted
Becomes(t) ==
    /\ line' = t.line
    /\ cursor' = t.cursor
    /\ history' = t.history
    /\ historyIndex' = t.historyIndex
    /\ closed' = t.closed
    /\ paused' = t.paused
    /\ sawReturnAt' = t.sawReturnAt
    /\ previousKey' = t.previousKey
    /\ completion' = t.completion
    /\ emitted' = t.out
    /\ lineEvents' = lineEvents \o LinePayloads(t.out)
    /\ closeCount' = closeCount + CountEvents(t.out, "close")
    /\ prevRows' = t.prevRows
    /\ renders' = t.renders
    /\ written' = t.written
    /\ started' = t.started
    /\ refreshes' = t.refreshes
    /\ terminal' = t.terminal
    /\ rawMode' = t.rawMode
    /\ suspended' = t.suspended

\* The handler that ran last was not the completer's callback
NoCallback ==
    [called |-> FALSE, err |-> FALSE, completions |-> <<>>,
     completeOn |-> <<>>, line |-> <<>>, cursor |-> 0]

\* The terminal is not observed
NoTerminal ==
    [attached |-> FALSE, row |-> 0, col |-> 0, pending |-> FALSE,
     promptRow |-> 0]

\* The state after the constructor, which enters raw mode
InitFields ==
    /\ prevRows = 0
    /\ renders = <<>>
    /\ written = <<>>
    /\ started = 0
    /\ refreshes = 0
    /\ rawMode = TRUE
    /\ suspended = FALSE
    /\ line = <<>>
    /\ cursor = 0
    /\ history = <<>>
    /\ historyIndex = -1
    /\ closed = FALSE
    /\ paused = FALSE
    /\ sawReturnAt = 0
    /\ previousKey = NoKey
    /\ completion = NoCompletion
    /\ now = 1
    /\ emitted = <<>>
    /\ lineEvents = <<>>
    /\ closeCount = 0
    /\ lastCallback = NoCallback
    /\ keyLog = <<>>

\* A terminal of 80 columns that is not observed, and no 'SIGTSTP' listener
InitUnobserved ==
    /\ columns = 80
    /\ terminal = NoTerminal
    /\ sigtstpListeners = 0

\* The key handled last and the one before it (NoKey when there is none),
\* and when each was handled
lastKey == IF Len(keyLog) >= 1 THEN keyLog[1].key ELSE NoKey

lastKeyAt == IF Len(keyLog) >= 1 THEN keyLog[1].at ELSE 0

keyBefore == IF Len(keyLog) >= 2 THEN keyLog[2].key ELSE NoKey

keyBeforeAt == IF Len(keyLog) >= 2 THEN keyLog[2].at ELSE 0

\* A 'keypress' event of the input: the listener is removed by 'close', and a
\* paused input delivers nothing.  The key log keeps the last depth events.
\* The writes of the renders complete before the next event.
KeyPressLogged(k, depth) ==
    /\ ~closed
    /\ ~paused
    /\ ~suspended
    /\ keyLog' = SubSeq(<<[key |-> k, at |-> now]>> \o keyLog, 1,
                        Min(depth, Len(keyLog) + 1))
    /\ Becomes(Flush(inputKeyPressHandler(Fields, k.sequence, k)))
    /\ lastCallback' = NoCallback
    /\ UNCHANGED <<ttyWriter, sigintListeners, now, columns, sigtstpListeners>>

KeyPress(k) == KeyPressLogged(k, 1)

KeyPressAfter(k) == KeyPressLogged(k, 2)

\* The 'end' event of the input
InputEnd ==
    /\ ~closed
    /\ ~paused
    /\ ~suspended
    /\ Becomes(Flush(inputTermEndHandler(Fields)))
    /\ lastCallback' = NoCallback
    /\ UNCHANGED <<ttyWriter, sigintListeners, now, keyLog, columns,
                   sigtstpListeners>>

\* A call of close() by the program
Close ==
    /\ ~suspended
    /\ Becomes(Flush(close(Fields)))
    /\ lastCallback' = NoCallback
    /\ UNCHANGED <<ttyWriter, sigintListeners, now, keyLog, columns,
                   sigtstpListeners>>

\* The completer calls back
CompleterCallback(err, completions, completeOn) ==
    /\ completion.active
    /\ ~suspended
    /\ Becomes(Flush(onComplete(Fields, err, completions, completeOn)))
    /\ lastCallback' = [called |-> TRUE, err |-> err,
                        completions |-> completions,
                        completeOn |-> completeOn,
                        line |-> line, cursor |-> cursor]
    /\ UNCHANGED <<ttyWriter, sigintListeners, now, keyLog, columns,
                   sigtstpListeners>>

\* A 'resize' event of the output (the width stays; the listener is removed
\* by 'close')
Resize ==
    /\ ~closed
    /\ ~suspended
    /\ Becomes(Flush(outputResizeHandler(Fields)))
    /\ lastCallback' = NoCallback
    /\ UNCHANGED <<ttyWriter, sigintListeners, now, keyLog, columns,
                   sigtstpListeners>>

\* A call of prompt(preserveCursor) by the program
Prompt(preserveCursor) ==
    /\ ~closed
    /\ ~suspended
    /\ Becomes(Flush(prompt(Fields, preserveCursor)))
    /\ lastCallback' = NoCallback
    /\ UNCHANGED <<ttyWriter, sigintListeners, now, keyLog, columns,
                   sigtstpListeners>>

\* A 'keypress' event that arrives while the writes of earlier renders may
\* still be awaited, as the second of two keys read in one chunk does
KeyPressEarly(k) ==
    /\ ~closed
    /\ ~paused
    /\ ~suspended
    /\ Becomes(inputKeyPressHandler(Fields, k.sequence, k))
    /\ keyLog' = <<[key |-> k, at |-> now]>>
    /\ lastCallback' = NoCallback
    /\ UNCHANGED <<ttyWriter, sigintListeners, now, columns, sigtstpListeners>>

\* A 'resize' event that arrives while writes may still be awaited
ResizeEarly ==
    /\ ~closed
    /\ ~suspended
    /\ Becomes(outputResizeHandler(Fields))
    /\ lastCallback' = NoCallback
    /\ UNCHANGED <<ttyWriter, sigintListeners, now, keyLog, columns,
                   sigtstpListeners>>

\* The oldest awaited write completes: the render that awaits it goes on
\* to its next await, or to its end
RenderResume ==
    /\ renders # <<>>
    /\ LET t == refreshLineResume([Fields EXCEPT !.written = written,
                                                 !.started = started])
       IN  /\ prevRows' = t.prevRows
           /\ renders' = t.renders
           /\ written' = t.written
           /\ terminal' = t.terminal
    /\ UNCHANGED <<line, cursor, history, historyIndex, closed, paused,
                   sawReturnAt, previousKey, completion, ttyWriter,
                   sigintListeners, now, emitted, lineEvents, closeCount,
                   columns, started, refreshes, rawMode, suspended,
                   sigtstpListeners, lastCallback, keyLog>>

\* SIGCONT reaches the stopped process: the handler that Ctrl-Z registered
\* with process.once runs
Sigcont ==
    /\ suspended
    /\ Becomes(Flush(sigcontHandler(Fields)))
    /\ lastCallback' = NoCallback
    /\ UNCHANGED <<ttyWriter, sigintListeners, now, keyLog, columns,
                   sigtstpListeners>>

\* Time passes
Tick ==
    /\ now + TickStep <= MaxNow
    /\ now' = now + TickStep
    /\ UNCHANGED <<line, cursor, history, historyIndex, closed, paused,
                   sawReturnAt, previousKey, completion, ttyWriter,
                   sigintListeners, emitted, lineEvents, closeCount,
                   columns, prevRows, renders, written, started, refreshes,
                   terminal, rawMode, suspended, sigtstpListeners,
                   lastCallback, keyLog>>

(***************************************************************************)
(* Spec: an editing session, under either writer.                          *)
(***************************************************************************)
KeyA == Plain("a", <<97>>)
KeyHigh == Plain("undefined", <<55357>>)
KeyLow == Plain("undefined", <<56832>>)
KeyBackspace == Plain("backspace", <<127>>)
KeyDelete == Plain("delete", <<27, 91, 51, 126>>)
KeyLeft == Plain("left", <<27, 91, 68>>)
KeyRight == Plain("right", <<27, 91, 67>>)
KeyHome == Plain("home", <<27, 91, 72>>)
KeyEnd == Plain("end", <<27, 91, 70>>)
KeyUp == Plain("up", <<27, 91, 65>>)
KeyDown == Plain("down", <<27, 91, 66>>)
KeyEscape == Plain("escape", <<27>>)
KeyReturn == Plain("return", <<13>>)
KeyEnter == Plain("enter", <<10>>)
KeyTab == Plain("tab", <<9>>)
KeyCtrlC == Ctrl("c", <<3>>)
KeyCtrlD == Ctrl("d", <<4>>)

EditKeys ==
    {KeyA, KeyHigh, KeyLow, KeyBackspace, KeyDelete, KeyLeft, KeyRight,
     KeyHome, KeyEnd, KeyUp, KeyDown, KeyEscape, KeyCtrlC, KeyCtrlD,
     Ctrl("h", <<8>>), Ctrl("u", <<21>>), Ctrl("k", <<11>>), Ctrl("a", <<1>>),
     Ctrl("e", <<5>>), Ctrl("b", <<2>>), Ctrl("f", <<6>>), Ctrl("l", <<12>>),
     Ctrl("n", <<14>>), Ctrl("p", <<16>>), Ctrl("w", <<23>>),
     Ctrl("x", <<24>>),
     Ctrl("backspace", <<8>>), Ctrl("delete", <<27, 91, 51, 59, 53, 126>>),
     Ctrl("left", <<27, 91, 49, 59, 53, 68>>),
     Ctrl("right", <<27, 91, 49, 59, 53, 67>>),
     CtrlShift("backspace", <<127>>),
     CtrlShift("delete", <<27, 91, 51, 59, 54, 126>>),
     Meta("b", <<27, 98>>), Meta("f", <<27, 102>>), Meta("d", <<27, 100>>),
     Meta("delete", <<27, 27, 91, 51, 126>>), Meta("backspace", <<27, 127>>),
     Meta("x", <<27, 120>>)}

DumbKeys == {KeyA, KeyEscape, KeyCtrlC, KeyCtrlD}

Init ==
    /\ InitFields
    /\ InitUnobserved
    /\ ttyWriter \in {"normal", "dumb"}
    /\ sigintListeners \in {0, 1}

Next ==
    \/ \E k \in (IF ttyWriter = "dumb" THEN DumbKeys ELSE EditKeys) :
          /\ KeyPress(k)
          /\ Len(line') <= MaxLen
    \/ InputEnd
    \/ Close

Spec == Init /\ [][Next]_vars

(***************************************************************************)
(* SpecCommit: lines are typed, committed and recalled from the history,   *)
(* under either writer.                                                    *)
(***************************************************************************)
KeySpace == Plain("space", <<32>>)

CommitKeys ==
    {KeyA, KeySpace, KeyReturn, KeyEnter, KeyUp, KeyDown, Ctrl("p", <<16>>)}

DumbCommitKeys == {KeyA, KeySpace, KeyReturn, KeyEnter}

InitCommit ==
    /\ InitFields
    /\ InitUnobserved
    /\ ttyWriter \in {"normal", "dumb"}
    /\ sigintListeners = 0

NextCommit ==
    \E k \in (IF ttyWriter = "dumb" THEN DumbCommitKeys ELSE CommitKeys) :
        /\ KeyPressAfter(k)
        /\ Len(line') < MaxLen
        /\ Len(lineEvents') <= MaxCommits

SpecCommit == InitCommit /\ [][NextCommit]_vars

(***************************************************************************)
(* SpecHistory: pairwise distinct one-character lines are typed and        *)
(* committed one after the other, kHistorySize + MaxExtra of them at most, *)
(* and the history is browsed in between (normal writer).                  *)
(***************************************************************************)
\* The key of the next line: a printable character not typed before
FreshKey == Plain("undefined", <<161 + Len(lineEvents)>>)

InitHistory ==
    /\ InitFields
    /\ InitUnobserved
    /\ ttyWriter = "normal"
    /\ sigintListeners = 0

NextHistory ==
    \/ /\ line = <<>>
       /\ historyIndex = -1
       /\ KeyPress(FreshKey)
    \/ /\ line # <<>>
       /\ historyIndex = -1
       /\ KeyPress(KeyReturn)
       /\ Len(lineEvents') <= kHistorySize + MaxExtra
    \/ \E k \in {KeyUp, KeyDown} : KeyPress(k)

SpecHistory == InitHistory /\ [][NextHistory]_vars

(***************************************************************************)
(* SpecCrlf: \r and \n keys arrive with time passing between them, under   *)
(* either writer.                                                          *)
(***************************************************************************)
CrlfKeys == {KeyA, KeyReturn, KeyEnter}

NextCrlf ==
    \/ \E k \in CrlfKeys :
          /\ KeyPressAfter(k)
          /\ Len(line') < MaxLen
          /\ Len(lineEvents') <= MaxCommits
    \/ Tick

SpecCrlf == Init /\ [][NextCrlf]_vars

(***************************************************************************)
(* SpecComplete: a line is typed, Tab asks the completer, and the          *)
(* completer calls back with an error or with candidates (normal writer).  *)
(***************************************************************************)
KeyF == Plain("f", <<102>>)

CompleteKeys == {KeyF, KeyLeft, KeyTab}

\* The candidates a completer answers with: "", "f", "o", "ff", "fo"
CandidateStrings == {<<>>, <<102>>, <<111>>, <<102, 102>>, <<102, 111>>}

\* The lists of at most n candidates
RECURSIVE CandidateLists(_)
CandidateLists(n) ==
    IF n = 0 THEN {<<>>}
    ELSE LET shorter == CandidateLists(n - 1)
         IN  shorter \cup {Append(l, c) : l \in shorter, c \in CandidateStrings}

\* ["foo", "foobar", "foobaz"]
FooCandidates ==
    << <<102, 111, 111>>, <<102, 111, 111, 98, 97, 114>>,
       <<102, 111, 111, 98, 97, 122>> >>

\* The answers [completions, completeOn] of the completer
CompleterResults ==
    {[completions |-> l, completeOn |-> on] :
        l \in CandidateLists(MaxCands), on \in {<<>>, <<102>>, <<102, 102>>}}
    \cup {[completions |-> FooCandidates, completeOn |-> <<102>>]}

NextComplete ==
    \/ \E k \in CompleteKeys :
          /\ KeyPress(k)
          /\ Len(line') < MaxLen
    \/ \E r \in CompleterResults :
          CompleterCallback(FALSE, r.completions, r.completeOn)
    \/ CompleterCallback(TRUE, <<>>, <<>>)
    \/ Close

SpecComplete == InitHistory /\ [][NextComplete]_vars

(***************************************************************************)
(* SpecCompleteFair: SpecComplete with a completer that answers in the     *)
(* end, with an error, with no candidate or with candidates.               *)
(***************************************************************************)
CompleterAnswers ==
    \/ CompleterCallback(TRUE, <<>>, <<>>)
    \/ CompleterCallback(FALSE, <<>>, <<>>)
    \/ CompleterCallback(FALSE, FooCandidates, <<102>>)

NextCompleteFair ==
    \/ \E k \in CompleteKeys :
          /\ KeyPress(k)
          /\ Len(line') < MaxLen
    \/ CompleterAnswers
    \/ Close

SpecCompleteFair ==
    InitHistory /\ [][NextCompleteFair]_vars /\ WF_vars(CompleterAnswers)

(***************************************************************************)
(* SpecDisplay: characters of width 1 and 2 are typed at the end of the    *)
(* line on terminals of several widths, and the line is redrawn.           *)
(***************************************************************************)
\* U+4E2D, one code unit and two columns
KeyWide == Plain("undefined", <<20013>>)

\* U+1F600, two code units and two columns
KeyEmoji == Plain("undefined", <<55357, 56832>>)

DisplayKeys == {KeyA, KeyWide, KeyEmoji, KeyBackspace}

\* "hello world"
HelloWorld == <<104, 101, 108, 108, 111, 32, 119, 111, 114, 108, 100>>

Widths == (2..MaxCols) \cup {10, 20}

InitDisplay ==
    /\ InitFields
    /\ ttyWriter = "normal"
    /\ sigintListeners = 0
    /\ sigtstpListeners = 0
    /\ terminal = NoTerminal
    /\ columns \in Widths

NextDisplay ==
    \/ \E k \in DisplayKeys :
          /\ KeyPress(k)
          /\ Len(line') <= MaxLen + 2
    \/ /\ columns = 20
       /\ Len(line) < Len(HelloWorld)
       /\ line = SubSeq(HelloWorld, 1, Len(line))
       /\ KeyPress(Plain("undefined", <<HelloWorld[Len(line) + 1]>>))
    \/ Resize

SpecDisplay == InitDisplay /\ [][NextDisplay]_vars

(***************************************************************************)
(* SpecRaw: the session is suspended with Ctrl-Z, continued, and closed by *)
(* close(), Ctrl-D on an empty line, Ctrl-C without listener or the end of *)
(* the input, under the normal writer.                                     *)
(***************************************************************************)
KeyCtrlZ == Ctrl("z", <<26>>)

RawKeys == {KeyA, KeyBackspace, KeyLeft, KeyCtrlC, KeyCtrlD, KeyCtrlZ}

InitRaw ==
    /\ InitFields
    /\ InitUnobserved
    /\ ttyWriter = "normal"
    /\ sigintListeners \in {0, 1}

NextRaw ==
    \/ \E k \in RawKeys :
          /\ KeyPress(k)
          /\ Len(line') <= MaxLen
    \/ Sigcont
    \/ InputEnd
    \/ Close

SpecRaw == InitRaw /\ [][NextRaw]_vars

(***************************************************************************)
(* SpecRecall: lines are typed, recalled from the history, edited, erased  *)
(* and committed (normal writer).                                          *)
(***************************************************************************)
RecallKeys == {KeyA, KeySpace, KeyBackspace, KeyUp, KeyDown, KeyReturn}

NextRecall ==
    \E k \in RecallKeys :
        /\ KeyPress(k)
        /\ Len(line') < MaxLen
        /\ Len(lineEvents') <= MaxCommits + 1

SpecRecall == InitHistory /\ [][NextRecall]_vars

(***************************************************************************)
(* SpecRender: on a terminal of 4 columns, keys and resizes arrive while   *)
(* the writes of earlier renders are awaited; at most MaxRenders renders   *)
(* are in flight and at most MaxWritten calls are logged.                  *)
(***************************************************************************)
RenderKeys == {KeyA, KeyBackspace}

InitRender ==
    /\ InitFields
    /\ columns = 4
    /\ terminal = NoTerminal
    /\ sigtstpListeners = 0
    /\ ttyWriter = "normal"
    /\ sigintListeners = 0

NextRender ==
    \/ /\ \/ \E k \in RenderKeys : KeyPressEarly(k)
          \/ ResizeEarly
       /\ Len(line') <= MaxLen
       /\ Len(renders') <= MaxRenders
       /\ Len(written') <= MaxWritten
    \/ RenderResume

SpecRender == InitRender /\ [][NextRender]_vars

(***************************************************************************)
(* SpecTerminal: lines are typed, edited, recalled and committed on a      *)
(* terminal of 4 columns whose cursor is observed; the writes of every     *)
(* render complete before the next event (normal writer).                  *)
(***************************************************************************)
TerminalKeys ==
    {KeyA, KeyBackspace, KeyLeft, KeyRight, KeyUp, KeyDown, KeyReturn}

\* The terminal with its cursor at the top left
NewTerminal ==
    [attached |-> TRUE, row |-> 0, col |-> 0, pending |-> FALSE,
     promptRow |-> 0]

InitTerminal ==
    /\ InitFields
    /\ columns = 4
    /\ terminal = NewTerminal
    /\ sigtstpListeners = 0
    /\ ttyWriter = "normal"
    /\ sigintListeners = 0

NextTerminal ==
    \/ \E k \in TerminalKeys :
          /\ KeyPress(k)
          /\ Len(line') <= MaxLen
          /\ Len(lineEvents') <= MaxCommits
    \/ \E preserveCursor \in BOOLEAN : Prompt(preserveCursor)
    \/ Resize

SpecTerminal == InitTerminal /\ [][NextTerminal]_vars

(***************************************************************************)
(* C1: after every key event the cursor is in range:                       *)
(* 0 <= cursor <= length(line).                                            *)
(***************************************************************************)
CursorInRange == 0 <= cursor /\ cursor <= Len(line)

(***************************************************************************)
(* C7: 'close' is emitted at most once per session, and a closed session   *)
(* never becomes open again: the number of 'close' events is 1 when the    *)
(* session is closed and 0 when it is open.                                *)
(***************************************************************************)
CloseAtMostOnce == closeCount = (IF closed THEN 1 ELSE 0)

\* close() was called on a session already closed by Ctrl-D
CloseAgainReached ==
    /\ closed
    /\ closeCount = 1
    /\ lastKey = KeyCtrlD
    /\ emitted = <<>>

(***************************************************************************)
(* C8: Ctrl-D (normal writer) closes the session if and only if the line   *)
(* is empty; on a non-empty line it removes the one logical character at   *)
(* the cursor (nothing at the end of the line), the cursor unchanged.      *)
(***************************************************************************)
\* The number of code units of the logical character at offset i of str
LogicalCharAt(str, i) ==
    IF i < 0 \/ i >= Len(str) THEN 0
    ELSE IF /\ i + 1 < Len(str)
            /\ IsHighSurrogate(str[i + 1])
            /\ IsLowSurrogate(str[i + 2])
         THEN 2
         ELSE 1

\* str without the logical character at offset i
WithoutCharAt(str, i) ==
    [j \in 1..(Len(str) - LogicalCharAt(str, i)) |->
        IF j <= i THEN str[j] ELSE str[j + LogicalCharAt(str, i)]]

CtrlDClosesIffEmpty ==
    [][(ttyWriter = "normal" /\ KeyPress(KeyCtrlD)) =>
          /\ closed' <=> (line = <<>>)
          /\ line # <<>> => /\ cursor' = cursor
                            /\ line' = WithoutCharAt(line, cursor)]_vars

(***************************************************************************)
(* C9: Ctrl-C, under both writers, emits exactly one SIGINT and does not   *)
(* close when a SIGINT listener is registered, closes when none is, and    *)
(* leaves the line and the cursor unchanged.                               *)
(***************************************************************************)
CtrlCLeavesLine ==
    [][KeyPress(KeyCtrlC) =>
          /\ line' = line
          /\ cursor' = cursor
          /\ sigintListeners > 0 =>
                /\ CountEvents(emitted', "SIGINT") = 1
                /\ ~closed'
          /\ sigintListeners = 0 => closed']_vars

(***************************************************************************)
(* C3: committing a line L that is not blank and then at once pressing     *)
(* history-previous (Up or Ctrl-P, normal writer) leaves line = L,         *)
(* cursor = length(L) and historyIndex = 0.  (Stated for every such L,     *)
(* whether or not it equals the most recent entry.)                        *)
(***************************************************************************)
IsCommitKey(k) == k \in {KeyReturn, KeyEnter}

IsPrevKey(k) == k \in {KeyUp, Ctrl("p", <<16>>)}

CommitThenPrevRoundTrip ==
    [][\A k \in CommitKeys :
          (/\ ttyWriter = "normal"
           /\ IsPrevKey(k)
           /\ IsCommitKey(lastKey)
           /\ Len(LinePayloads(emitted)) = 1
           /\ ~TrimIsEmpty(LinePayloads(emitted)[1])
           /\ KeyPressAfter(k))
          => /\ line' = LinePayloads(emitted)[1]
             /\ cursor' = Len(line')
             /\ historyIndex' = 0]_vars

\* Up was pressed right after the commit of "aa", which differed from the
\* most recent entry "a"
RoundTripReached ==
    /\ IsPrevKey(lastKey)
    /\ IsCommitKey(keyBefore)
    /\ lineEvents = << <<97>>, <<97, 97>> >>
    /\ history = << <<97, 97>>, <<97>> >>
    /\ line = <<97, 97>>
    /\ historyIndex = 0

(***************************************************************************)
(* C6: each commit emits exactly one 'line' event, whose payload is the    *)
(* text of the line when Enter was pressed, and leaves line = '' and       *)
(* cursor = 0.                                                             *)
(***************************************************************************)
\* Whether key k commits the line: \r always, \n unless it ends a \r\n
Commits(k) ==
    \/ k = KeyReturn
    \/ k = KeyEnter /\ (sawReturnAt = 0 \/ now - sawReturnAt > kMincrlfDelay)

CommitEmitsLine ==
    [][\A k \in CommitKeys :
          (Commits(k) /\ KeyPressAfter(k))
          => /\ LinePayloads(emitted') = <<line>>
             /\ line' = <<>>
             /\ cursor' = 0]_vars

\* The line "a" was committed as a new line and then again, as a duplicate
CommitKindsReached ==
    /\ IsCommitKey(lastKey)
    /\ lineEvents = << <<97>>, <<97>> >>
    /\ history = << <<97>> >>
    /\ emitted = <<Event("line", <<97>>)>>
    /\ line = <<>>
    /\ cursor = 0

(***************************************************************************)
(* C2: the history never holds more than kHistorySize entries, and after   *)
(* kHistorySize + k pairwise distinct non-blank lines were committed       *)
(* (k >= 1) it holds exactly the kHistorySize committed last, the most     *)
(* recent first.                                                           *)
(***************************************************************************)
PairwiseDistinct(seq) ==
    \A i, j \in 1..Len(seq) : i # j => seq[i] # seq[j]

CrLfIsOneCommit ==
    [][(/\ KeyPressAfter(KeyEnter)
        /\ lastKey = KeyReturn
        /\ now - lastKeyAt <= kMincrlfDelay)
       => /\ Len(LinePayloads(emitted)) = 1
          /\ LinePayloads(emitted') = <<>>
          /\ lineEvents' = lineEvents]_vars

\* "a", \r and, exactly kMincrlfDelay ms later, \n: one 'line' event
CoalescedReached ==
    /\ lastKey = KeyEnter
    /\ keyBefore = KeyReturn
    /\ lastKeyAt - keyBeforeAt = kMincrlfDelay
    /\ lineEvents = << <<97>> >>
    /\ emitted = <<>>

IsPrefixOf(p, str) == Len(p) <= Len(str) /\ SubSeq(str, 1, Len(p)) = p

\* The longest string that is a prefix of every string of the list
LongestCommonPrefix(strings) ==
    IF strings = <<>> THEN <<>>
    ELSE LET common ==
                 {n \in 0..Len(strings[1]) :
                     \A i \in 1..Len(strings) :
                         IsPrefixOf(SubSeq(strings[1], 1, n), strings[i])}
         IN  SubSeq(strings[1], 1,
                    CHOOSE n \in common : \A m \in common : m <= n)

\* The text a completion is to insert
ExpectedInsert(completions, completeOn) ==
    LET lcp == LongestCommonPrefix(SelectSeq(completions, LAMBDA c : c # <<>>))
    IN  IF Len(lcp) > Len(completeOn)
        THEN SubSeq(lcp, Len(completeOn) + 1, Len(lcp))
        ELSE <<>>

CompletionInsertsCommonPrefix ==
    (lastCallback.called /\ ~lastCallback.err /\ lastCallback.completions # <<>>)
    => LET c == lastCallback
           ins == ExpectedInsert(c.completions, c.completeOn)
       IN  /\ commonPrefix(c.completions) = LongestCommonPrefix(c.completions)
           /\ line = SubSeq(c.line, 1, c.cursor) \o ins
                     \o SubSeq(c.line, c.cursor + 1, Len(c.line))
           /\ cursor = c.cursor + Len(ins)

\* The completer answered ["foo", "foobar", "foobaz"] for the prefix "f",
\* and "oo" was inserted
FooCompleted ==
    /\ lastCallback.called
    /\ lastCallback.completions = FooCandidates
    /\ lastCallback.completeOn = <<102>>
    /\ lastCallback.line = <<102>>
    /\ lastCallback.cursor = 1
    /\ line = <<102, 111, 111>>
    /\ cursor = 3

(***************************************************************************)
(* C11: from the Tab that calls the completer until the completer's        *)
(* callback runs the session is paused and no key event is handled: line,  *)
(* cursor, history and historyIndex stay as they are, and the prefix the   *)
(* completer was given is the line up to the cursor as it was at the Tab.  *)
(***************************************************************************)
PausedWhileCompleting ==
    [][/\ completion'.active
          => /\ paused'
             /\ completion'.prefix = SubSeq(line', 1, cursor')
       /\ completion.active => keyLog' = keyLog
       /\ (completion.active /\ completion'.active)
          => UNCHANGED <<line, cursor, history, historyIndex>>]_vars

\* The completer was called for "f" with the cursor inside the line "ff",
\* and close() was called before it answered
AwaitingCompletion ==
    /\ completion.active
    /\ paused
    /\ closed
    /\ completion.prefix = <<102>>
    /\ line = <<102, 102>>
    /\ cursor = 1

(***************************************************************************)
(* C12: every call of the completer is followed in the end by a return to  *)
(* idle, the input resumed, when the completer answers in the end - with   *)
(* an error, with no candidate or with candidates.                         *)
(***************************************************************************)
CompletionReturnsToIdle ==
    /\ completion.active ~> (~completion.active /\ ~paused)
    /\ [](lastCallback.called => (~completion.active /\ ~paused))

\* The completer answered with an error and the input is resumed
ResumedAfterError ==
    /\ lastCallback.called
    /\ lastCallback.err
    /\ ~completion.active
    /\ ~paused
    /\ line = <<102>>

(***************************************************************************)
(* C13: after the completer's callback the line is redrawn (refreshLine    *)
(* is called), whether the completer answered with an error, with no       *)
(* candidate or with candidates.                                           *)
(***************************************************************************)
RedrawnAfterCallback == lastCallback.called => refreshes >= 1

(***************************************************************************)
(* C14: an error of the completer is not fatal: the callback writes an     *)
(* error message to the output, does not close the session and leaves      *)
(* line, cursor, history and historyIndex as they were at the Tab.         *)
(***************************************************************************)
\* The texts that the calls logged in w passed to output.write
TextsWritten(w) == {w[i].text : i \in {j \in DOMAIN w : w[j].op = "write"}}

CompleterErrorIsReported ==
    [][CompleterCallback(TRUE, <<>>, <<>>)
       => /\ \E text \in TextsWritten(written') :
                IsPrefixOf(CompletionErrorText, text)
          /\ UNCHANGED <<line, cursor, history, historyIndex, closed>>]_vars

(***************************************************************************)
(* C15: getDisplayPos agrees with the layout of a terminal of W >= 2       *)
(* columns for strings of characters of width 1 and 2 without newline: n   *)
(* ASCII characters end at column n mod W of row n div W ('> hello world'  *)
(* on 20 columns: column 13 of row 0), and a character of width 2 that     *)
(* would begin in the last column goes whole to the next row.              *)
(***************************************************************************)
\* The cell after a character of width w placed at or after cell p, the
\* cells numbered row by row from 0: a character is never split over rows
CellAfter(p, w, W) ==
    IF (p % W) + w > W THEN (p \div W + 1) * W + w ELSE p + w

\* The cell after the characters of str from code unit i on, placed one by
\* one from cell p
RECURSIVE LayoutFrom(_, _, _, _)
LayoutFrom(str, i, p, W) ==
    IF i >= Len(str) THEN p
    ELSE LET code == CodePointAt(str, i)
         IN  LayoutFrom(str,
                        IF code >= 65536 THEN i + 2 ELSE i + 1,
                        CellAfter(p, IF isFullWidthCodePoint(code) THEN 2 ELSE 1, W),
                        W)

ReferenceLayout(str, W) ==
    LET p == LayoutFrom(str, 0, 0, W)
    IN  [cols |-> p % W, rows |-> p \div W]

\* The prefixes of the displayed text that end between two characters
DisplayedPrefixes ==
    LET text == promptText \o line
    IN  {SubSeq(text, 1, n) :
            n \in {m \in 0..Len(text) :
                      m = 0 \/ m = Len(text) \/ ~IsLowSurrogate(text[m + 1])}}

DisplayPosIsLayout ==
    /\ \A str \in DisplayedPrefixes :
          getDisplayPos(str, columns) = ReferenceLayout(str, columns)
    /\ \A n \in 0..Len(line) :
          (\A i \in 1..n : line[i] < 128)
          => getDisplayPos(SubSeq(line, 1, n), columns)
             = [cols |-> n % columns, rows |-> n \div columns]
    /\ (columns = 20 /\ line = HelloWorld)
       => getDisplayPos(promptText \o line, columns) = [cols |-> 13, rows |-> 0]

\* On 10 columns a wide character was typed with the cursor in column 9: it
\* went to the next row
WideCharacterPushed ==
    /\ columns = 10
    /\ line = <<20013, 20013, 20013, 97, 20013>>
    /\ getDisplayPos(promptText \o SubSeq(line, 1, 4), columns)
       = [cols |-> 9, rows |-> 0]
    /\ getDisplayPos(promptText \o line, columns) = [cols |-> 2, rows |-> 1]
    /\ refreshes >= 1

(***************************************************************************)
(* C16: raw mode is paired with the lifecycle of the session: it is on     *)
(* while the session is open and not suspended, and it is off once the     *)
(* session is closed, by whatever path.                                    *)
(***************************************************************************)
RawModePaired ==
    /\ (~closed /\ ~suspended) => rawMode
    /\ closed => ~rawMode

(***************************************************************************)
(* C17: every commit leaves historyIndex = -1, whatever the committed line *)
(* is and whatever historyIndex was before.                                *)
(***************************************************************************)
\* The handler that ran last committed a line
Committed == CountEvents(emitted, "line") > 0

CommitResetsHistoryIndex ==
    [][(KeyPress(KeyReturn) /\ Committed') => historyIndex' = -1]_vars

(***************************************************************************)
(* C18: renders are serialized: of two renders started one after the other *)
(* every write of the earlier precedes every write of the later, and the   *)
(* later reads prevRows after the earlier has stored it, so that no render *)
(* starts while another is in flight.                                      *)
(***************************************************************************)
\* The writes of the renders are in the order in which the renders started
WritesInRenderOrder ==
    \A i, j \in DOMAIN written :
        (i < j /\ written[i].by > 0 /\ written[j].by > 0)
        => written[i].by <= written[j].by

RendersSerialized ==
    /\ WritesInRenderOrder
    /\ Len(renders) <= 1

(***************************************************************************)
(* C19: at constant width, whenever no render is in progress prevRows is   *)
(* the offset of the row of the terminal's cursor from the first row of    *)
(* the prompt, and it is 0 after a commit.                                 *)
(***************************************************************************)
\* The row of the terminal's cursor, counted from the first row of the prompt
CursorRowOffset == terminal.row - terminal.promptRow

PrevRowsIsCursorRow ==
    renders = <<>>
    => /\ prevRows = CursorRowOffset
       /\ Committed => prevRows = 0

(***************************************************************************)
(* C20: the handler of one key event, and one callback of the completer,   *)
(* calls refreshLine at most once.                                         *)
(***************************************************************************)
AtMostOneRefresh == refreshes <= 1

(***************************************************************************)
(* C21: with the cursor in range, deleteLeft (Backspace, Ctrl-H) removes   *)
(* the one logical character left of the cursor and moves the cursor back  *)
(* by its length, and deleteRight (Delete) removes the one logical         *)
(* character at the cursor and leaves the cursor; each changes nothing at  *)
(* its end of the line.                                                    *)
(***************************************************************************)
\* The number of code units of the logical character that ends at offset i
LogicalCharLeft(str, i) ==
    IF i <= 0 \/ i > Len(str) THEN 0
    ELSE IF i >= 2 /\ IsHighSurrogate(str[i - 1]) /\ IsLowSurrogate(str[i])
         THEN 2
         ELSE 1

DeleteLeftKeys == {KeyBackspace, Ctrl("h", <<8>>)}

DeleteRemovesOneCharacter ==
    [][(ttyWriter = "normal" /\ CursorInRange)
       => /\ \A k \in DeleteLeftKeys :
                KeyPress(k)
                => /\ cursor' = cursor - LogicalCharLeft(line, cursor)
                   /\ line' = (IF cursor = 0 THEN line
                                ELSE WithoutCharAt(line, cursor'))
          /\ KeyPress(KeyDelete)
             => /\ cursor' = cursor
                /\ line' = WithoutCharAt(line, cursor)]_vars

(***************************************************************************)
(* SpecWord: lines of word characters, spaces and punctuation are typed,   *)
(* and the cursor is moved and the line is cut by characters and by words  *)
(* (normal writer).                                                        *)
(***************************************************************************)
KeyBang == Plain("undefined", <<33>>)

DeleteWordLeftKeys ==
    {Ctrl("w", <<23>>), Ctrl("backspace", <<8>>), Meta("backspace", <<27, 127>>)}

DeleteWordRightKeys ==
    {Ctrl("delete", <<27, 91, 51, 59, 53, 126>>), Meta("d", <<27, 100>>),
     Meta("delete", <<27, 27, 91, 51, 126>>)}

WordMoveKeys ==
    {Ctrl("left", <<27, 91, 49, 59, 53, 68>>),
     Ctrl("right", <<27, 91, 49, 59, 53, 67>>),
     Meta("b", <<27, 98>>), Meta("f", <<27, 102>>)}

WordKeys ==
    {KeyA, KeySpace, KeyBang, KeyLeft, KeyRight}
    \cup DeleteWordLeftKeys \cup DeleteWordRightKeys \cup WordMoveKeys

NextWord ==
    \E k \in WordKeys :
        /\ KeyPress(k)
        /\ Len(line') <= MaxLen

SpecWord == InitHistory /\ [][NextWord]_vars

(***************************************************************************)
(* C22: deleteWordRight removes exactly the characters that wordRight      *)
(* would move the cursor over from the same state and leaves the cursor,   *)
(* and deleteWordLeft removes exactly the characters that wordLeft would   *)
(* move over and puts the cursor where wordLeft would; the rest of the     *)
(* line is unchanged.                                                      *)
(***************************************************************************)
DeleteWordLeftIsWordLeft ==
    \A k \in DeleteWordLeftKeys :
        KeyPress(k)
        => /\ cursor' = wordLeft(Fields).cursor
           /\ line' = Slice(line, 0, cursor') \o SliceFrom(line, cursor)

DeleteWordRightIsWordRight ==
    \A k \in DeleteWordRightKeys :
        KeyPress(k)
        => /\ cursor' = cursor
           /\ line' = Slice(line, 0, cursor)
                       \o SliceFrom(line, wordRight(Fields).cursor)

DeleteWordIsWordMove ==
    [][DeleteWordLeftIsWordLeft /\ DeleteWordRightIsWordRight]_vars

(***************************************************************************)
(* SpecUnbound: lines are typed, committed and recalled, and between these *)
(* keys the escape key and chords that the writer has no case for are      *)
(* pressed (normal writer).                                                *)
(***************************************************************************)
UnboundKeys ==
    {KeyEscape, Ctrl("x", <<24>>), CtrlShift("x", <<24>>),
     Meta("x", <<27, 120>>)}

UnboundSpecKeys == {KeyA, KeyLeft, KeyReturn, KeyUp} \cup UnboundKeys

NextUnbound ==
    \E k \in UnboundSpecKeys :
        /\ KeyPress(k)
        /\ Len(line') <= MaxLen
        /\ Len(lineEvents') <= MaxCommits

SpecUnbound == InitHistory /\ [][NextUnbound]_vars

(***************************************************************************)
(* C23: under the normal writer the escape key, and a control, control and *)
(* shift, or meta chord that the writer has no case for, leaves line,      *)
(* cursor, history, historyIndex, paused and closed as they were and emits *)
(* no event at all, so no 'line', no 'close' and no error.                 *)
(***************************************************************************)
UnboundKeyIsSilent ==
    [][\A k \in UnboundKeys :
          (ttyWriter = "normal" /\ lastKey' = k /\ KeyPress(k))
          => /\ UNCHANGED <<line, cursor, history, historyIndex, paused,
                             closed, lineEvents, closeCount>>
             /\ emitted' = <<>>]_vars

\* An unbound key was pressed inside a line recalled from the history
UnboundInsideRecalledLine ==
    /\ lastKey \in UnboundKeys
    /\ line # <<>>
    /\ cursor < Len(line)
    /\ historyIndex >= 0

(***************************************************************************)
(* C24: a completion lists the candidates only when the key before its Tab *)
(* was a Tab too and the line was not edited between the two Tabs, the     *)
(* common prefix that the completion of the first Tab inserted being an    *)
(* edit; after a single Tab, or a Tab that follows another key, no list is *)
(* written.                                                                *)
(***************************************************************************)
\* The calls logged in w include the writeToOutput('\r\n') that starts the
\* list and ends each of its rows
WritesList(w) ==
    \E i \in DOMAIN w : w[i].op = "writeToOutput" /\ w[i].text = <<13, 10>>

\* The completion of the Tab pressed last changed the line
EditedSinceTab == lastCallback.called /\ line # lastCallback.line

\* This step is the completer calling back with candidates
CandidatesArrive ==
    /\ completion.active
    /\ lastCallback'.called
    /\ ~lastCallback'.err

HistoryPrevKeys == {KeyUp, Ctrl("p", <<16>>)}

HistoryNextKeys == {KeyDown, Ctrl("n", <<14>>)}

NavigateKeys ==
    {KeyA, KeyBackspace, KeyReturn} \cup HistoryPrevKeys \cup HistoryNextKeys

NextNavigate ==
    \E k \in NavigateKeys :
        /\ KeyPress(k)
        /\ Len(line') < MaxLen
        /\ Len(lineEvents') <= MaxCommits + 1

SpecNavigate == InitHistory /\ [][NextNavigate]_vars

(***************************************************************************)
(* C25: always -1 <= historyIndex < Len(history); Up, Down, Ctrl-P and     *)
(* Ctrl-N leave the history as it is; Up or Ctrl-P at the oldest entry     *)
(* changes neither line, cursor nor historyIndex; Down or Ctrl-N at index  *)
(* 0 sets historyIndex to -1 and empties the line with the cursor at 0.    *)
(***************************************************************************)
HistoryIndexInRange == -1 <= historyIndex /\ historyIndex < Len(history)

NavigationStep(k) ==
    /\ history' = history
    /\ (k \in HistoryPrevKeys /\ historyIndex + 1 = Len(history))
       => UNCHANGED <<line, cursor, historyIndex>>
    /\ (k \in HistoryNextKeys /\ historyIndex = 0)
       => /\ historyIndex' = -1
          /\ line' = <<>>
          /\ cursor' = 0

HistoryNavigation ==
    /\ []HistoryIndexInRange
    /\ [][\A k \in HistoryPrevKeys \cup HistoryNextKeys :
             (lastKey' = k /\ KeyPress(k)) => NavigationStep(k)]_vars

\* Down or Ctrl-N has just left the newest of several entries
LeftNewestEntry ==
    /\ lastKey \in HistoryNextKeys
    /\ historyIndex = -1
    /\ refreshes = 1
    /\ Len(history) >= 2

(***************************************************************************)
(* C26: a closed session stays paused, closed => paused in every state,    *)
(* also when close() is called while a completer call is outstanding and   *)
(* the completer calls back afterwards; that callback neither changes the  *)
(* line nor emits an event.                                                *)
(***************************************************************************)
ClosedIsPaused(isClosed, isPaused) == isClosed => isPaused

\* This step is the completer calling back after close()
LateCallback == closed /\ completion.active /\ lastCallback'.called

LateCallbackIsInert == LateCallback => (line' = line /\ emitted' = <<>>)

ClosedStaysPaused ==
    [][ClosedIsPaused(closed', paused') /\ LateCallbackIsInert]_vars

====